---- MODULE Spec2Model ----
(***************************************************************************)
(* Phase Maker: the phase generation engine of src/utils/phaseGenerator.ts *)
(* and the handlers of components/PhaseGenerator.tsx that drive it.        *)
(*                                                                         *)
(* Random numbers.  Math.random is a mutable global that holds a function. *)
(* The model keeps a heap `fns` of random functions and the index `rnd` of *)
(* the one currently installed as Math.random; the pair is threaded        *)
(* through every operator that draws ("env").  A draw is the numerator n   *)
(* of the value n / 233280: that is exactly what a seedRandom closure      *)
(* returns, and the built-in source is sampled on the same grid, as a      *)
(* cyclic pattern of numerators that is fixed for a behaviour.             *)
(*                                                                         *)
(* Descriptions.  A description string is kept as the sequence of its      *)
(* component phrases, each phrase being the tuple of its tokens            *)
(* (<<1, "set of", 3>> is "1 set of 3"), the phrases being joined by       *)
(* " + ".  Two strings are equal exactly when their token sequences are.   *)
(***************************************************************************)
EXTENDS Integers, Sequences, FiniteSets, TLC

\* ---------------------------------------------------------------- bounds
MaxPatLen == 2          \* longest cyclic pattern of built-in draws
MaxCalls == 3           \* engine calls per behaviour
MaxSeedLen == 2         \* longest seed / token string handed in by a caller

\* ------------------------------------------------------------- utilities
Min2(a, b) == IF a <= b THEN a ELSE b
Max2(a, b) == IF a >= b THEN a ELSE b
Min3(a, b, c) == Min2(a, Min2(b, c))

RECURSIVE SumSeq(_)
SumSeq(s) == IF s = <<>> THEN 0 ELSE Head(s) + SumSeq(Tail(s))

\* ------------------------------------------------------ PHASE_COMPONENTS
PHASE_COMPONENTS ==
    << [type |-> "set",          minSize |-> 2, maxSize |-> 4, baseDifficulty |-> 2],
       [type |-> "run",          minSize |-> 3, maxSize |-> 8, baseDifficulty |-> 1],
       [type |-> "color",        minSize |-> 4, maxSize |-> 8, baseDifficulty |-> 3],
       [type |-> "evenOdd",      minSize |-> 4, maxSize |-> 8, baseDifficulty |-> 3],
       [type |-> "colorRun",     minSize |-> 3, maxSize |-> 6, baseDifficulty |-> 4],
       [type |-> "colorEvenOdd", minSize |-> 3, maxSize |-> 6, baseDifficulty |-> 5] >>

\* PHASE_COMPONENTS.find(pc => pc.type === t)
ComponentTypeOf(t) ==
    PHASE_COMPONENTS[CHOOSE i \in 1..Len(PHASE_COMPONENTS) : PHASE_COMPONENTS[i].type = t]

\* the description renderers of the catalog, as token tuples
description(type, count, size) ==
    CASE type = "set"      -> IF count = 1 THEN <<1, "set of", size>>
                                           ELSE <<count, "sets of", size>>
      [] type = "run"      -> IF count = 1 THEN <<1, "run of", size>>
                                           ELSE <<count, "runs of", size>>
      [] type = "color"    -> <<size, "cards of one color">>
      [] type = "evenOdd"  -> <<size, "even or odd cards">>
      [] type = "colorRun" -> IF count = 1 THEN <<1, "color run of", size>>
                                           ELSE <<count, "color runs of", size>>
      [] OTHER             -> <<size, "even or odd cards of one color">>

\* ------------------------------------------------------------ seedRandom
Modulus == 233280

\* seedNumber = (seedNumber * 9301 + 49297) % 233280, computed without
\* leaving 32 bits: 9301 = 9000 + 301
LcgNext(seedNumber) ==
    (((seedNumber * 9000) % Modulus) + ((seedNumber * 301 + 49297) % Modulus)) % Modulus

\* a seed number that weighs each character code by its place in the string
seedRandomByPlace(seed) ==
    [kind |-> "seeded", seedNumber |-> SumSeq([i \in 1..Len(seed) |-> i * seed[i]])]

\* A seed string is the sequence of its character codes.
seedRandom(seed) == [kind |-> "seeded", seedNumber |-> SumSeq(seed)]

\* the closure is made but Math.random is not assigned
InstallForgotten(env, f) ==
    [rnd |-> env.rnd, fns |-> Append(env.fns, f)]

\* Math.random = f : allocate the closure f on the heap and install it
Install(env, f) ==
    [rnd |-> Len(env.fns) + 1, fns |-> Append(env.fns, f)]

\* the assignment in the finally block left out
RestoreForgotten(env, originalRandom) == env

\* Math.random = originalRandom
Restore(env, originalRandom) == [env EXCEPT !.rnd = originalRandom]

\* Math.random() : one draw of the installed function; v is the numerator
\* of the value v / 233280
Random(env) ==
    IF env.fns[env.rnd].kind = "seeded"
    THEN [v |-> LcgNext(env.fns[env.rnd].seedNumber),
          env |-> [env EXCEPT !.fns[env.rnd] =
                      [kind |-> "seeded",
                       seedNumber |-> LcgNext(env.fns[env.rnd].seedNumber)]]]
    ELSE [v |-> env.fns[env.rnd].pat[env.fns[env.rnd].idx],
          env |-> [env EXCEPT !.fns[env.rnd] =
                      [kind |-> "native", pat |-> env.fns[env.rnd].pat,
                       idx |-> (env.fns[env.rnd].idx % Len(env.fns[env.rnd].pat)) + 1]]]

\* Math.random() < t for the thresholds t = tenths / 10 used in the source
Below(v, tenths) == v * 10 < tenths * Modulus

\* Math.floor(Math.random() * n)
FloorTimes(v, n) == (v * n) \div Modulus

\* ----------------------------------------------------- getWeightedRandom
\* WeightCuts[p][range - 1][k] is the least numerator v for which
\* Math.floor(Math.pow(v / 233280, weight) * range) >= k, where
\* weight = Math.max(0.3, 1 - (p - 1) * 0.1); row 8 serves phases 8, 9, 10.
WeightCuts ==
    << << <<116640>>, <<77760, 155520>>, <<58320, 116640, 174960>>,
          <<46656, 93312, 139968, 186624>>, <<38880, 77760, 116640, 155520, 194400>> >>,
       << <<107995>>, <<68825, 148670>>, <<49995, 107995, 169456>>,
          <<39017, 84280, 132245, 182054>>, <<31862, 68825, 107995, 148670, 190502>> >>,
       << <<98083>>, <<59085, 140529>>, <<41239, 98083, 162819>>,
          <<31201, 74209, 123188, 176499>>, <<24843, 59085, 98083, 140529, 185739>> >>,
       << <<86664>>, <<48560, 130713>>, <<32196, 86664, 154666>>,
          <<23408, 63008, 112448, 169604>>, <<18040, 48560, 86664, 130713, 179789>> >>,
       << <<73479>>, <<37384, 118684>>, <<23145, 73479, 144427>>,
          <<15957, 50658, 99571, 160828>>, <<11775, 37384, 73479, 118684, 172151>> >>,
       << <<58320>>, <<25920, 103680>>, <<14580, 58320, 131220>>,
          <<9332, 37325, 83981, 149300>>, <<6480, 25920, 58320, 103680, 162000>> >>,
       << <<41239>>, <<14965, 84655>>, <<7290, 41239, 113640>>,
          <<4174, 23607, 65052, 133538>>, <<2646, 14965, 41239, 84655, 147886>> >>,
       << <<23145>>, <<5991, 60382>>, <<2297, 23145, 89416>>,
          <<1092, 11001, 42500, 110878>>, <<595, 5991, 23145, 60382, 127040>> >> >>

\* Math.floor(Math.pow(v / 233280, weight) * range)
PowFloor(v, phase, range) ==
    Cardinality({k \in 1..Len(WeightCuts[Min2(phase, 8)][range - 1]) :
                    v >= WeightCuts[Min2(phase, 8)][range - 1][k]})

\* min + Math.floor(Math.pow(Math.random(), weight) * range) on the draw r
weightedValue(min, max, phase, r) ==
    [v |-> min + PowFloor(r.v, phase, max - min + 1), env |-> r.env]

getWeightedRandom(min, max, phase, env) ==
    IF min > max THEN [v |-> min, env |-> env]
    ELSE IF min = max THEN [v |-> min, env |-> env]
    ELSE weightedValue(min, max, phase, Random(env))

\* --------------------------------------------------- calculateDifficulty
\* Math.pow(size - 2, 1.8) in ten-thousandths, indexed by size - 1
SetSizeComplexity == <<0, 10000, 34822, 72247, 121257, 181195, 251578, 332029>>

\* complexity of one component, in ten-thousandths
componentComplexity(comp) ==
    ComponentTypeOf(comp.type).baseDifficulty * 10000
  + (IF comp.type = "set" THEN SetSizeComplexity[comp.size - 1]
                          ELSE (comp.size - ComponentTypeOf(comp.type).minSize) * 4000)
  + (IF comp.count > 1 THEN (comp.count - 1) * 12000 ELSE 0)

\* totalCards of calculateDifficulty, existingCardCount of generatePhaseComponent
cardsOf(components) ==
    SumSeq([i \in 1..Len(components) |-> components[i].count * components[i].size])

\* totalComplexity in ten-thousandths
totalComplexity(components) ==
    SumSeq([i \in 1..Len(components) |-> componentComplexity(components[i])])
    + (IF Len(components) > 1 THEN (Len(components) - 1) * 10000 ELSE 0)
    + Max2(0, (cardsOf(components) - 6) * 3000)

\* the scale cut off with Math.floor where the code rounds
calculateDifficultyFloored(components) ==
    Min2(1000000, Max2(100000, totalComplexity(components) * 8 + 100000)) \div 100000

\* Math.round(Math.min(10, Math.max(1, totalComplexity * 0.8 + 1))), computed
\* on totalComplexity * 0.8 + 1 in hundred-thousandths
calculateDifficulty(components) ==
    (Min2(1000000, Max2(100000, totalComplexity(components) * 8 + 100000)) + 50000)
        \div 100000

\* ------------------------------------------------ generatePhaseComponent
\* the filter left out: the whole catalog at every phase number
availableTypesUnfiltered(phaseNumber) == PHASE_COMPONENTS

\* PHASE_COMPONENTS.filter((_, index) => ...) by phase number
availableTypes(phaseNumber) ==
    SubSeq(PHASE_COMPONENTS, 1,
           IF phaseNumber <= 3 THEN 2
           ELSE IF phaseNumber <= 5 THEN 3
           ELSE IF phaseNumber <= 7 THEN 4
           ELSE 6)

\* availableTypes.filter(type => !existingTypes.includes(type.type))
differentTypes(avail, existingComponents) ==
    SelectSeq(avail, LAMBDA t :
        t.type \notin {existingComponents[i].type : i \in 1..Len(existingComponents)})

\* availableTypesFiltered as first assigned: other types than the ones in
\* use, for phases up to 5, when there are any
preferDifferentTypes(phaseNumber, existingComponents, avail) ==
    IF phaseNumber <= 5 /\ Len(existingComponents) > 0 /\ Len(avail) > 1
       /\ Len(differentTypes(avail, existingComponents)) > 0
    THEN differentTypes(avail, existingComponents) ELSE avail

\* if (availableTypesFiltered.length === 0) { ... }
typesOrFallback(avail, filtered) ==
    IF Len(filtered) = 0
    THEN (IF Len(avail) > 0 THEN avail ELSE SubSeq(PHASE_COMPONENTS, 1, 2))
    ELSE filtered

availableTypesFiltered(phaseNumber, existingComponents) ==
    typesOrFallback(availableTypes(phaseNumber),
                    preferDifferentTypes(phaseNumber, existingComponents,
                                         availableTypes(phaseNumber)))

\* types[Math.floor(Math.random() * types.length)] on the draw r
pickType(types, r) ==
    [t |-> types[FloorTimes(r.v, Len(types)) + 1], env |-> r.env]

\* Math.random() < 0.6 ? complexTypes[...] : availableTypesFiltered[...]
\* on the first draw r1
pickComplexType(types, r1) ==
    IF Below(r1.v, 6)
    THEN pickType(SubSeq(types, 3, Len(types)), Random(r1.env))
    ELSE pickType(types, Random(r1.env))

\* the choice of componentType among types; draws one or two numbers
chooseAmong(phaseNumber, types, env) ==
    IF phaseNumber >= 8 /\ Len(types) > 3
    THEN pickComplexType(types, Random(env))
    ELSE pickType(types, Random(env))

chooseComponentType(phaseNumber, existingComponents, env) ==
    chooseAmong(phaseNumber, availableTypesFiltered(phaseNumber, existingComponents), env)

\* if (maxSetSize < componentType.minSize) { maxSetSize = Math.min(minSize, remainingCards) }
atLeastMinSize(componentType, remainingCards, m) ==
    IF m < componentType.minSize
    THEN Min2(componentType.minSize, remainingCards) ELSE m

\* maxSetSize of the branch for sets
maxSetSize(componentType, phaseNumber, existingComponents, remainingCards) ==
    atLeastMinSize(componentType, remainingCards,
        IF phaseNumber <= 3
        THEN (IF Len(existingComponents) > 0 \/ remainingCards < 8
              THEN Min2(3, Min3(3, componentType.maxSize, remainingCards))
              ELSE Min3(3, componentType.maxSize, remainingCards))
        ELSE IF phaseNumber <= 6
        THEN Min3(4, componentType.maxSize, remainingCards)
        ELSE Min2(componentType.maxSize, remainingCards))

\* maxRunSize of the branch for runs
maxRunSize(componentType, phaseNumber, existingComponents, remainingCards) ==
    IF phaseNumber <= 3
    THEN (IF Len(existingComponents) > 0 \/ remainingCards < 8
          THEN Min2(4, Min3(5, componentType.maxSize, remainingCards))
          ELSE Min3(5, componentType.maxSize, remainingCards))
    ELSE IF phaseNumber <= 6
    THEN Min3(7, componentType.maxSize, remainingCards)
    ELSE Min2(componentType.maxSize, remainingCards)

\* maxSize of the branch for the other types
maxOtherSize(componentType, phaseNumber, remainingCards) ==
    IF phaseNumber <= 6
    THEN Min3(componentType.maxSize, remainingCards, 7)
    ELSE Min2(componentType.maxSize, remainingCards)

\* the size drawn between minSize and maxSize, or the minimum when the
\* bounds cross
sizeBetween(minSize, maxSize, phaseNumber, remainingCards, env) ==
    IF maxSize < minSize
    THEN [v |-> Min2(minSize, remainingCards), env |-> env]
    ELSE getWeightedRandom(minSize, maxSize, phaseNumber, env)

\* the size selection, before the final safety clamp
chooseSize(componentType, phaseNumber, existingComponents, remainingCards, env) ==
    IF componentType.type = "set"
    THEN getWeightedRandom(
            componentType.minSize,
            maxSetSize(componentType, phaseNumber, existingComponents, remainingCards),
            phaseNumber, env)
    ELSE sizeBetween(
            Min2(componentType.minSize, remainingCards),
            IF componentType.type = "run"
            THEN maxRunSize(componentType, phaseNumber, existingComponents, remainingCards)
            ELSE maxOtherSize(componentType, phaseNumber, remainingCards),
            phaseNumber, remainingCards, env)

\* count = Math.random() < 0.6 ? 2 : 1 on the draw r
twoOrOne(r) == [v |-> IF Below(r.v, 6) THEN 2 ELSE 1, env |-> r.env]

\* the count selection
chooseCount(componentType, size, phaseNumber, remainingCards, env) ==
    IF componentType.type = "set" /\ size >= 4
    THEN [v |-> 1, env |-> env]
    ELSE IF phaseNumber <= 3
    THEN (IF size <= 3 /\ remainingCards >= size * 2
          THEN twoOrOne(Random(env))
          ELSE [v |-> 1, env |-> env])
    ELSE getWeightedRandom(1, Min2(2, Max2(1, remainingCards \div size)), phaseNumber, env)

\* the component returned, for the count cn chosen
componentOf(componentType, size, cn) ==
    [component |-> [type |-> componentType.type, size |-> size, count |-> cn.v,
                    description |-> description(componentType.type, cn.v, size)],
     env |-> cn.env]

\* the count selection and the return, for the size after the safety clamp
withSize(componentType, phaseNumber, remainingCards, size, env) ==
    componentOf(componentType, size,
                chooseCount(componentType, size, phaseNumber, remainingCards, env))

\* size = Math.max(minSize, Math.min(size, remainingCards, maxSize)) on the
\* size sz chosen, and the rest of the function
withType(componentType, phaseNumber, remainingCards, sz) ==
    withSize(componentType, phaseNumber, remainingCards,
             Max2(componentType.minSize,
                  Min3(sz.v, remainingCards, componentType.maxSize)),
             sz.env)

\* the size selection and the rest of the function, for the type ct chosen
afterType(phaseNumber, existingComponents, remainingCards, ct) ==
    withType(ct.t, phaseNumber, remainingCards,
             chooseSize(ct.t, phaseNumber, existingComponents, remainingCards, ct.env))

\* generatePhaseComponent taking the whole budget of 9 cards as remaining
generatePhaseComponentFullBudget(phaseNumber, existingComponents, env) ==
    afterType(phaseNumber, existingComponents, 9,
              chooseComponentType(phaseNumber, existingComponents, env))

generatePhaseComponent(phaseNumber, existingComponents, env) ==
    afterType(phaseNumber, existingComponents,
              Max2(2, 9 - cardsOf(existingComponents)),
              chooseComponentType(phaseNumber, existingComponents, env))

\* --------------------------------------------------- generateSinglePhase
\* the number of components to attempt, from its one draw
componentCountOf(phaseNumber, rand) ==
    IF phaseNumber <= 3
    THEN (IF phaseNumber = 1
          THEN (IF Below(rand, 3) THEN 1 ELSE 2)
          ELSE (IF Below(rand, 4) THEN 1 ELSE IF Below(rand, 8) THEN 2 ELSE 1))
    ELSE IF phaseNumber <= 6
    THEN (IF Below(rand, 3) THEN 1 ELSE 2)
    ELSE (IF Below(rand, 6) THEN 1 ELSE IF Below(rand, 9) THEN 2 ELSE 3)

\* the count with the source of draws after the draw r
countOn(phaseNumber, r) == [v |-> componentCountOf(phaseNumber, r.v), env |-> r.env]

chooseComponentCount(phaseNumber, env) == countOn(phaseNumber, Random(env))

fallbackComponent ==
    [type |-> "run", count |-> 1, size |-> 6, description |-> <<1, "run of", 6>>]

\* the component made smaller when it is the first one and too big
adjustedComponent(component) ==
    [component EXCEPT !.size = Min2(component.size, 9),
                      !.description = description(component.type, component.count,
                                                  Min2(component.size, 9))]

\* the body of the assembly loop up to its test for the break, on the
\* component g.component drawn for this pass
assemblyStep(st, g) ==
    IF st.totalCards + g.component.count * g.component.size <= 9
    THEN [st EXCEPT !.components = Append(st.components, g.component),
                    !.totalCards = st.totalCards + g.component.count * g.component.size,
                    !.i = st.i + 1,
                    !.env = g.env]
    ELSE IF Len(st.components) = 0
    THEN [st EXCEPT !.components = <<adjustedComponent(g.component)>>,
                    !.totalCards = g.component.count * Min2(g.component.size, 9),
                    !.i = st.i + 1,
                    !.env = g.env,
                    !.shrunk = TRUE]
    ELSE [st EXCEPT !.env = g.env, !.discarded = st.discarded + 1]

\* if (totalCards >= 6 && components.length >= 1) break; otherwise attempts++
assemblyBreak(st) ==
    IF st.totalCards >= 6 /\ Len(st.components) >= 1
    THEN [st EXCEPT !.broke = TRUE]
    ELSE [st EXCEPT !.attempts = st.attempts + 1]

\* for (let i = 0; i < componentCount && attempts < 20; attempts++) { ... }
\* st = [components, totalCards, i, attempts, env, shrunk, discarded, broke]
RECURSIVE assemblyLoop(_, _, _)
assemblyLoop(phaseNumber, componentCount, st) ==
    IF st.broke \/ ~(st.i < componentCount /\ st.attempts < 20) THEN st
    ELSE assemblyLoop(phaseNumber, componentCount,
            assemblyBreak(assemblyStep(st,
                generatePhaseComponent(phaseNumber, st.components, st.env))))

\* components.find(comp => comp.count * comp.size < 7) || components[0], as an index
expandableIndex(components) ==
    IF \E k \in 1..Len(components) : components[k].count * components[k].size < 7
    THEN CHOOSE k \in 1..Len(components) :
            /\ components[k].count * components[k].size < 7
            /\ \A j \in 1..(k - 1) : ~(components[j].count * components[j].size < 7)
    ELSE 1

\* Math.ceil(a / b) for a >= 0, b > 0
CeilDiv(a, b) == (a + b - 1) \div b

\* maxPossibleSize for the component chosen for expansion
maxPossibleSize(expandableComponent, totalCards) ==
    Min2(9, 9 - (totalCards - expandableComponent.count * expandableComponent.size))

\* the expansion taking all the room there is
maxExpansionToRoom(expandableComponent, totalCards) ==
    maxPossibleSize(expandableComponent, totalCards)

\* maxExpansion: the size the component chosen for expansion is given
maxExpansion(expandableComponent, totalCards) ==
    IF expandableComponent.type = "set"
    THEN Min2(4, expandableComponent.size + 1)
    ELSE Min2(maxPossibleSize(expandableComponent, totalCards),
              expandableComponent.size + CeilDiv(6 - totalCards, expandableComponent.count))

\* the component with its new size and description
expandedComponent(expandableComponent, totalCards) ==
    [expandableComponent EXCEPT
        !.size = maxExpansion(expandableComponent, totalCards),
        !.description = description(expandableComponent.type, expandableComponent.count,
                                    maxExpansion(expandableComponent, totalCards))]

\* one pass of the body of the expansion loop on components[k]; the
\* replacement by the fallback leaves totalCards at 6, which ends the loop
expansionStep(st, k) ==
    IF maxPossibleSize(st.components[k], st.totalCards) > st.components[k].size
    THEN [st EXCEPT !.components[k] = expandedComponent(st.components[k], st.totalCards),
                    !.totalCards = st.totalCards
                                   - st.components[k].count * st.components[k].size
                                   + st.components[k].count
                                     * maxExpansion(st.components[k], st.totalCards),
                    !.adjustmentAttempts = st.adjustmentAttempts + 1]
    ELSE [st EXCEPT !.components = <<fallbackComponent>>, !.totalCards = 6,
                    !.replaced = TRUE]

\* while (totalCards < 6 && components.length > 0 && adjustmentAttempts < 10) { ... }
\* st = [components, totalCards, adjustmentAttempts, replaced]
RECURSIVE expansionLoop(_)
expansionLoop(st) ==
    IF ~(st.totalCards < 6 /\ Len(st.components) > 0 /\ st.adjustmentAttempts < 10) THEN st
    ELSE expansionLoop(expansionStep(st, expandableIndex(st.components)))

\* what is left by the expansion loop e, or the fallback when the phase is
\* still short of 6 cards
afterExpansion(e) ==
    IF e.totalCards < 6
    THEN [components |-> <<fallbackComponent>>, totalCards |-> 6, path |-> "fallbackStuck",
          adjustmentAttempts |-> e.adjustmentAttempts]
    ELSE [components |-> e.components, totalCards |-> e.totalCards,
          path |-> IF e.replaced THEN "fallbackNoRoom" ELSE "expanded",
          adjustmentAttempts |-> e.adjustmentAttempts]

\* the recovery after the assembly loop: [components, totalCards, path,
\* adjustmentAttempts]
recover(components, totalCards) ==
    IF ~(Len(components) = 0 \/ totalCards < 6)
    THEN [components |-> components, totalCards |-> totalCards, path |-> "assembled",
          adjustmentAttempts |-> 0]
    ELSE IF Len(components) = 0
    THEN [components |-> <<fallbackComponent>>, totalCards |-> 6, path |-> "fallbackEmpty",
          adjustmentAttempts |-> 0]
    ELSE afterExpansion(expansionLoop([components |-> components, totalCards |-> totalCards,
                                       adjustmentAttempts |-> 0, replaced |-> FALSE]))

typeOrder(t) ==
    CASE t = "set" -> 1 [] t = "run" -> 2 [] t = "color" -> 3
      [] t = "evenOdd" -> 4 [] t = "colorRun" -> 5 [] OTHER -> 6

\* the comparator cut down to the type priority
compareComponentsByType(a, b) == typeOrder(a.type) - typeOrder(b.type)

\* the comparator handed to components.sort: negative when a goes first
compareComponents(a, b) ==
    IF typeOrder(a.type) - typeOrder(b.type) # 0 THEN typeOrder(a.type) - typeOrder(b.type)
    ELSE IF b.count - a.count # 0 THEN b.count - a.count
    ELSE b.size - a.size

\* stable insertion of c into a sorted sequence
RECURSIVE insertComponent(_, _)
insertComponent(sorted, c) ==
    IF sorted = <<>> THEN <<c>>
    ELSE IF compareComponents(c, Head(sorted)) < 0 THEN <<c>> \o sorted
    ELSE <<Head(sorted)>> \o insertComponent(Tail(sorted), c)

\* components.sort(...): stable
RECURSIVE sortComponents(_)
sortComponents(components) ==
    IF components = <<>> THEN <<>>
    ELSE insertComponent(sortComponents(SubSeq(components, 1, Len(components) - 1)),
                         components[Len(components)])

\* components.map(comp => comp.description).join(' + ')
joinDescriptions(components) ==
    [k \in 1..Len(components) |-> components[k].description]

\* the phase returned, with what the function computed on the way: cc the
\* component count, a the state left by the assembly loop, r the recovery
phaseOf(phaseNumber, cc, a, r, components) ==
    [componentCount |-> cc.v,
     attempts |-> a.attempts,
     shrunk |-> a.shrunk,
     discarded |-> a.discarded,
     broke |-> a.broke,
     env |-> a.env,
     path |-> r.path,
     adjustmentAttempts |-> r.adjustmentAttempts,
     components |-> components,
     phase |-> [id |-> phaseNumber,
                description |-> joinDescriptions(components),
                difficulty |-> calculateDifficulty(components),
                cardCount |-> r.totalCards]]

\* the sort of the components and the return
afterRecovery(phaseNumber, cc, a, r) ==
    phaseOf(phaseNumber, cc, a, r, sortComponents(r.components))

\* the recovery and the rest of the function
afterAssembly(phaseNumber, cc, a) ==
    afterRecovery(phaseNumber, cc, a, recover(a.components, a.totalCards))

\* the assembly loop and the rest of the function
afterCount(phaseNumber, cc) ==
    afterAssembly(phaseNumber, cc,
        assemblyLoop(phaseNumber, cc.v,
                     [components |-> <<>>, totalCards |-> 0, i |-> 0, attempts |-> 0,
                      env |-> cc.env, shrunk |-> FALSE, discarded |-> 0,
                      broke |-> FALSE]))

\* the result is the record [phase, env] with what was computed on the way
generateSinglePhase(phaseNumber, env) ==
    afterCount(phaseNumber, chooseComponentCount(phaseNumber, env))

\* -------------------------------------------------------- duplicate guard
arePhasesIdentical(phase1, phase2) ==
    phase1.description = phase2.description /\ phase1.cardCount = phase2.cardCount

isDuplicatePhase(phase, existingPhases) ==
    \E k \in 1..Len(existingPhases) : arePhasesIdentical(phase, existingPhases[k])

\* description.replace(/(\d+)/, (_, num) => String(parseInt(num) + 1)):
\* the first number of the string is the first token of the first phrase
incrementFirstNumber(desc) == [desc EXCEPT ![1][1] = desc[1][1] + 1]

\* description.replace(/(\d+)/, (_, num) => String(Math.max(2, parseInt(num) - 1)))
decrementFirstNumber(desc) == [desc EXCEPT ![1][1] = Max2(2, desc[1][1] - 1)]

\* the pass without its test of the upper limit: a card is always added
variationStepAlwaysAdds(variationPhase, originalPhase) ==
    [variationPhase EXCEPT !.cardCount = variationPhase.cardCount + 1,
                           !.description = incrementFirstNumber(variationPhase.description)]

\* one pass of the body of the while loop of createVariationOfPhase
\* the pass with its limits one card further in: at 8 cards neither of the
\* first two branches applies
variationStepInside(variationPhase, originalPhase) ==
    IF variationPhase.cardCount < 8
    THEN [variationPhase EXCEPT !.cardCount = variationPhase.cardCount + 1,
                                !.description = incrementFirstNumber(variationPhase.description)]
    ELSE IF variationPhase.cardCount > 8
    THEN [variationPhase EXCEPT !.cardCount = variationPhase.cardCount - 1,
                                !.description = decrementFirstNumber(variationPhase.description)]
    ELSE [id |-> originalPhase.id,
          description |-> << <<1, "set of", 6 + (originalPhase.id % 4)>> >>,
          difficulty |-> Min2(10, originalPhase.difficulty + 1),
          cardCount |-> 6 + (originalPhase.id % 4)]

variationStep(variationPhase, originalPhase) ==
    IF variationPhase.cardCount < 9
    THEN [variationPhase EXCEPT !.cardCount = variationPhase.cardCount + 1,
                                !.description = incrementFirstNumber(variationPhase.description)]
    ELSE IF variationPhase.cardCount > 6
    THEN [variationPhase EXCEPT !.cardCount = variationPhase.cardCount - 1,
                                !.description = decrementFirstNumber(variationPhase.description)]
    ELSE [id |-> originalPhase.id,
          description |-> << <<1, "set of", 6 + (originalPhase.id % 4)>> >>,
          difficulty |-> Min2(10, originalPhase.difficulty + 1),
          cardCount |-> 6 + (originalPhase.id % 4)]

RECURSIVE variationLoop(_, _, _, _)
variationLoop(variationPhase, originalPhase, existingPhases, attempts) ==
    IF isDuplicatePhase(variationPhase, existingPhases) /\ attempts < 5
    THEN variationLoop(variationStep(variationPhase, originalPhase), originalPhase,
                       existingPhases, attempts + 1)
    ELSE variationPhase

createVariationOfPhase(originalPhase, existingPhases) ==
    variationLoop(originalPhase, originalPhase, existingPhases, 0)

\* the values variationPhase takes in createVariationOfPhase, the first being
\* the copy of the original and the last the phase returned
RECURSIVE variationPath(_, _, _, _)
variationPath(variationPhase, originalPhase, existingPhases, attempts) ==
    IF isDuplicatePhase(variationPhase, existingPhases) /\ attempts < 5
    THEN <<variationPhase>>
         \o variationPath(variationStep(variationPhase, originalPhase), originalPhase,
                          existingPhases, attempts + 1)
    ELSE <<variationPhase>>

\* attempts as the while loop of createVariationOfPhase leaves it
RECURSIVE variationAttempts(_, _, _, _)
variationAttempts(variationPhase, originalPhase, existingPhases, attempts) ==
    IF isDuplicatePhase(variationPhase, existingPhases) /\ attempts < 5
    THEN variationAttempts(variationStep(variationPhase, originalPhase), originalPhase,
                           existingPhases, attempts + 1)
    ELSE attempts

\* ------------------------------------- generateUniqueId, generateRerollId
\* the character code of a base-36 digit
DigitCode(d) == IF d < 10 THEN 48 + d ELSE 87 + d

\* the fraction digits of (v / 233280).toString(36), as character codes.
\* 233280 = 5 * 36^3: three digits come from v \div 5, and the remainder
\* r / 5 is the repeating digit 7 * r (0.2 = 0.777..., 0.4 = 0.eee..., ...);
\* when r = 0 the expansion stops and has no trailing zeros.
RECURSIVE dropTrailingZeros(_)
dropTrailingZeros(ds) ==
    IF ds # <<>> /\ ds[Len(ds)] = 0 THEN dropTrailingZeros(SubSeq(ds, 1, Len(ds) - 1)) ELSE ds

fractionDigits36(v) ==
    IF v % 5 = 0
    THEN dropTrailingZeros(<<v \div 6480, (v % 6480) \div 180, (v % 180) \div 5>>)
    ELSE <<v \div 6480, (v % 6480) \div 180, (v % 180) \div 5,
           7 * (v % 5), 7 * (v % 5), 7 * (v % 5), 7 * (v % 5), 7 * (v % 5)>>

\* Math.random().toString(36).substring(2, 8), given the draw v:
\* "0." is cut off and at most six digits are kept ("0" gives "")
digitCodes(ds) == [k \in 1..Min2(6, Len(ds)) |-> DigitCode(ds[k])]

randomString6(v) == digitCodes(fractionDigits36(v))

rerollIdOn(r) == [id |-> randomString6(r.v), env |-> r.env]

generateRerollId(env) == rerollIdOn(Random(env))

\* the two parts joined by "-", from the draws r1 and r2
uniqueIdOn(r1, r2) ==
    [id |-> randomString6(r1.v) \o <<45>> \o randomString6(r2.v), env |-> r2.env]

generateUniqueId(env) == uniqueIdOn(Random(env), Random(Random(env).env))

\* ----------------------------------------------------- rerollSinglePhase
withRerollId(phase, phasePosition, rerollId) ==
    [id |-> phasePosition, description |-> phase.description,
     difficulty |-> phase.difficulty, cardCount |-> phase.cardCount,
     rerollId |-> rerollId]

\* finally { Math.random = originalRandom } after the phase g was generated
restored(g, originalRandom) ==
    [phase |-> g.phase, env |-> Restore(g.env, originalRandom)]

\* Math.random = seedRandom(rerollId); generateSinglePhase(phasePosition);
\* Math.random = originalRandom
generateSeeded(phasePosition, rerollId, env) ==
    restored(generateSinglePhase(phasePosition, Install(env, seedRandom(rerollId))),
             env.rnd)

\* newPhase.id = phasePosition; newPhase.rerollId = providedRerollId; return
providedResult(phasePosition, providedRerollId, g) ==
    [env |-> g.env,
     phase |-> withRerollId(g.phase, phasePosition, providedRerollId),
     attempts |-> 0, varied |-> FALSE, candidates |-> <<>>]

\* the branch without its seeding: the phase is drawn from whatever
\* Math.random is installed
rerollWithProvidedIdUnseeded(phasePosition, providedRerollId, env) ==
    providedResult(phasePosition, providedRerollId,
                   generateSinglePhase(phasePosition, env))

\* the branch taken when providedRerollId is truthy (a non-empty string)
rerollWithProvidedId(phasePosition, providedRerollId, env) ==
    providedResult(phasePosition, providedRerollId,
                   generateSeeded(phasePosition, providedRerollId, env))

\* if (!isDuplicatePhase(candidatePhase, existingPhases)) newPhase = candidatePhase;
\* attempts++
tryCandidate(existingPhases, st, candidatePhase, env) ==
    [env |-> env,
     attempts |-> st.attempts + 1,
     newPhase |-> IF ~isDuplicatePhase(candidatePhase, existingPhases)
                  THEN <<candidatePhase>> ELSE <<>>,
     candidates |-> Append(st.candidates, candidatePhase)]

\* the candidate g generated under the identifier rid, marked and tested
rerollGenerated(phasePosition, existingPhases, st, rid, g) ==
    tryCandidate(existingPhases, st, withRerollId(g.phase, phasePosition, rid.id), g.env)

\* the seeded generation under the identifier rid drawn for the pass
rerollDrawn(phasePosition, existingPhases, st, rid) ==
    rerollGenerated(phasePosition, existingPhases, st, rid,
                    generateSeeded(phasePosition, rid.id, rid.env))

\* one pass of the body of the while loop of rerollSinglePhase
rerollAttempt(phasePosition, existingPhases, st) ==
    rerollDrawn(phasePosition, existingPhases, st, generateRerollId(st.env))

\* the while loop with a ceiling of 25 passes
RECURSIVE rerollLoopTo25(_, _, _)
rerollLoopTo25(phasePosition, existingPhases, st) ==
    IF ~(st.attempts < 25 /\ st.newPhase = <<>>) THEN st
    ELSE rerollLoopTo25(phasePosition, existingPhases,
                        rerollAttempt(phasePosition, existingPhases, st))

\* while (attempts < 20 && !newPhase) { ... }
\* st = [attempts, newPhase (<<>> for null), env, candidates]
RECURSIVE rerollLoop(_, _, _)
rerollLoop(phasePosition, existingPhases, st) ==
    IF ~(st.attempts < 20 /\ st.newPhase = <<>>) THEN st
    ELSE rerollLoop(phasePosition, existingPhases,
                    rerollAttempt(phasePosition, existingPhases, st))

\* newPhase = createVariationOfPhase(fallbackPhase, existingPhases) with its
\* id and rerollId, for the phase g generated under the identifier rid
fallbackGenerated(phasePosition, existingPhases, l, rid, g) ==
    [env |-> g.env,
     phase |-> withRerollId(createVariationOfPhase([g.phase EXCEPT !.id = phasePosition],
                                                   existingPhases),
                            phasePosition, rid.id),
     attempts |-> l.attempts, varied |-> TRUE,
     candidates |-> Append(l.candidates, withRerollId(g.phase, phasePosition, rid.id))]

fallbackDrawn(phasePosition, existingPhases, l, rid) ==
    fallbackGenerated(phasePosition, existingPhases, l, rid,
                      generateSeeded(phasePosition, rid.id, rid.env))

\* the fallback applied to the last candidate of the loop under its token,
\* with no further generation
rerollFallbackOnLast(phasePosition, existingPhases, l) ==
    [env |-> l.env,
     phase |-> withRerollId(createVariationOfPhase(l.candidates[Len(l.candidates)],
                                                   existingPhases),
                            phasePosition, l.candidates[Len(l.candidates)].rerollId),
     attempts |-> l.attempts, varied |-> TRUE,
     candidates |-> l.candidates]

\* if (!newPhase) { ... }: the fallback through createVariationOfPhase
rerollFallback(phasePosition, existingPhases, l) ==
    fallbackDrawn(phasePosition, existingPhases, l, generateRerollId(l.env))

\* what is returned after the while loop l
afterRerollLoop(phasePosition, existingPhases, l) ==
    IF l.newPhase # <<>>
    THEN [phase |-> l.newPhase[1], env |-> l.env, attempts |-> l.attempts,
          varied |-> FALSE, candidates |-> l.candidates]
    ELSE rerollFallback(phasePosition, existingPhases, l)

rerollSinglePhase(phasePosition, existingPhases, providedRerollId, env) ==
    IF providedRerollId # <<>>
    THEN rerollWithProvidedId(phasePosition, providedRerollId, env)
    ELSE afterRerollLoop(phasePosition, existingPhases,
            rerollLoop(phasePosition, existingPhases,
                       [attempts |-> 0, newPhase |-> <<>>, env |-> env,
                        candidates |-> <<>>]))

\* ------------------------------------------------------- generatePhaseSet
ALGORITHM_VERSION == "1.0.0"

\* the pass keeping the latest of the candidates of highest difficulty: >=
\* where the code compares with >
candidateStepLatestBest(phases, st, g) ==
    IF isDuplicatePhase(g.phase, phases)
    THEN [st EXCEPT !.attempts = st.attempts + 1,
                    !.env = g.env,
                    !.candidates = Append(st.candidates, g.phase)]
    ELSE IF Len(phases) = 0 \/ g.phase.difficulty >= phases[Len(phases)].difficulty - 1
    THEN [st EXCEPT !.bestPhase = <<g.phase>>,
                    !.env = g.env,
                    !.candidates = Append(st.candidates, g.phase),
                    !.broke = TRUE]
    ELSE [st EXCEPT !.bestPhase = IF st.bestPhase = <<>>
                                     \/ g.phase.difficulty >= st.bestPhase[1].difficulty
                                  THEN <<g.phase>> ELSE st.bestPhase,
                    !.attempts = st.attempts + 1,
                    !.env = g.env,
                    !.candidates = Append(st.candidates, g.phase)]

\* one pass of the body of while (attempts < 20) on the phase g.phase
\* generated for it
candidateStep(phases, st, g) ==
    IF isDuplicatePhase(g.phase, phases)
    THEN [st EXCEPT !.attempts = st.attempts + 1,
                    !.env = g.env,
                    !.candidates = Append(st.candidates, g.phase)]
    ELSE IF Len(phases) = 0 \/ g.phase.difficulty >= phases[Len(phases)].difficulty - 1
    THEN [st EXCEPT !.bestPhase = <<g.phase>>,
                    !.env = g.env,
                    !.candidates = Append(st.candidates, g.phase),
                    !.broke = TRUE]
    ELSE [st EXCEPT !.bestPhase = IF st.bestPhase = <<>>
                                     \/ g.phase.difficulty > st.bestPhase[1].difficulty
                                  THEN <<g.phase>> ELSE st.bestPhase,
                    !.attempts = st.attempts + 1,
                    !.env = g.env,
                    !.candidates = Append(st.candidates, g.phase)]

\* while (attempts < 20) { ... } of one position
\* st = [attempts, bestPhase (<<>> for null), env, candidates, broke]
RECURSIVE candidateLoop(_, _, _)
candidateLoop(i, phases, st) ==
    IF st.broke \/ ~(st.attempts < 20) THEN st
    ELSE candidateLoop(i, phases, candidateStep(phases, st, generateSinglePhase(i, st.env)))

\* finalPhase = generateSinglePhase(i); duplicateAttempts++
duplicateStep(st, g) ==
    [finalPhase |-> g.phase, duplicateAttempts |-> st.duplicateAttempts + 1, env |-> g.env]

\* while (isDuplicatePhase(finalPhase, phases) && duplicateAttempts < 10) { ... }
\* st = [finalPhase, duplicateAttempts, env]
RECURSIVE duplicateLoop(_, _, _)
duplicateLoop(i, phases, st) ==
    IF isDuplicatePhase(st.finalPhase, phases) /\ st.duplicateAttempts < 10
    THEN duplicateLoop(i, phases, duplicateStep(st, generateSinglePhase(i, st.env)))
    ELSE st

\* let finalPhase = bestPhase || generateSinglePhase(i)
bestOrGenerated(i, c) ==
    IF c.bestPhase # <<>>
    THEN [phase |-> c.bestPhase[1], env |-> c.env]
    ELSE generateSinglePhase(i, c.env)

\* the end of the body of the for loop: the variation if finalPhase is still
\* a duplicate, and what the position went through
finalPosition(phases, c, d) ==
    [trace |-> [candidates |-> c.candidates, attempts |-> c.attempts,
                hadBest |-> c.bestPhase # <<>>,
                duplicateAttempts |-> d.duplicateAttempts,
                varied |-> isDuplicatePhase(d.finalPhase, phases),
                finalPhase |-> d.finalPhase,
                previous |-> phases],
     phase |-> IF isDuplicatePhase(d.finalPhase, phases)
               THEN createVariationOfPhase(d.finalPhase, phases)
               ELSE d.finalPhase,
     env |-> d.env]

\* let duplicateAttempts = 0, with finalPhase as just assigned
duplicateStart(start) ==
    [finalPhase |-> start.phase, duplicateAttempts |-> 0, env |-> start.env]

\* the body of the for loop after the candidate loop c
afterCandidates(i, phases, c) ==
    finalPosition(phases, c,
        duplicateLoop(i, phases, duplicateStart(bestOrGenerated(i, c))))

\* the body of for (let i = 1; i <= 10; i++): the phase pushed for position i
generatePosition(i, phases, env) ==
    afterCandidates(i, phases,
        candidateLoop(i, phases, [attempts |-> 0, bestPhase |-> <<>>, env |-> env,
                                  candidates |-> <<>>, broke |-> FALSE]))

\* phases.push(finalPhase); i++
pushPosition(st, g) ==
    [i |-> st.i + 1, phases |-> Append(st.phases, g.phase), env |-> g.env,
     traces |-> Append(st.traces, g.trace)]

\* for (let i = 1; i <= 10; i++) { ... }; st = [i, phases, env, traces]
RECURSIVE positionsLoop(_)
positionsLoop(st) ==
    IF st.i > 10 THEN st
    ELSE positionsLoop(pushPosition(st, generatePosition(st.i, st.phases, st.env)))

\* the comparator with the tie broken the other way round
comparePhasesLatestFirst(a, b) ==
    IF a.difficulty # b.difficulty THEN a.difficulty - b.difficulty ELSE b.id - a.id

\* the comparator handed to phases.sort: negative when a goes first
comparePhases(a, b) ==
    IF a.difficulty # b.difficulty THEN a.difficulty - b.difficulty ELSE a.id - b.id

RECURSIVE insertPhase(_, _)
insertPhase(sorted, p) ==
    IF sorted = <<>> THEN <<p>>
    ELSE IF comparePhases(p, Head(sorted)) < 0 THEN <<p>> \o sorted
    ELSE <<Head(sorted)>> \o insertPhase(Tail(sorted), p)

\* phases.sort(...): stable
RECURSIVE sortPhases(_)
sortPhases(phases) ==
    IF phases = <<>> THEN <<>>
    ELSE insertPhase(sortPhases(SubSeq(phases, 1, Len(phases) - 1)), phases[Len(phases)])

\* the renumbering left out: every phase keeps the position it was generated for
renumberKeepsIds(phases) == phases

\* phases.forEach((phase, index) => { phase.id = index + 1 })
renumber(phases) == [k \in 1..Len(phases) |-> [phases[k] EXCEPT !.id = k]]

\* the set returned, for the phases pushed l and the identifier u; createdAt
\* (the clock) is left out of the record
phaseSetOf(l, u) ==
    [accepted |-> l.phases,
     traces |-> l.traces,
     set |-> [phases |-> renumber(sortPhases(l.phases)),
              id |-> u.id, name |-> <<"Phase Set", u.id>>,
              version |-> ALGORITHM_VERSION],
     env |-> u.env]

\* the sort, the renumbering and the identifier, after the for loop l
afterPositions(l) == phaseSetOf(l, generateUniqueId(l.env))

\* the result is the record [set, env] with what was computed on the way
generatePhaseSet(env) ==
    afterPositions(positionsLoop([i |-> 1, phases |-> <<>>, env |-> env, traces |-> <<>>]))

\* ------------------------------------------------- generatePhaseSetFromId
\* phaseSet.phases.findIndex(p => p.id === phaseId), 0 for -1
findIndex(phases, phaseId) ==
    IF \E k \in 1..Len(phases) : phases[k].id = phaseId
    THEN CHOOSE k \in 1..Len(phases) :
            phases[k].id = phaseId /\ \A j \in 1..(k - 1) : phases[j].id # phaseId
    ELSE 0

\* phaseSet.phases.filter(p => p.id !== phaseId)
otherPhasesOf(phases, phaseId) ==
    SelectSeq(phases, LAMBDA p : p.id # phaseId)

least(S) == CHOOSE x \in S : \A y \in S : x <= y

\* Object.entries(rerolls): integer keys come in ascending order
RECURSIVE sortedKeys(_)
sortedKeys(S) ==
    IF S = {} THEN <<>>
    ELSE <<least(S)>> \o sortedKeys(S \ {least(S)})

\* the phase at phaseIndex replaced by the reroll r
storeReroll(st, phaseIndex, r) ==
    [env |-> r.env,
     phases |-> [st.phases EXCEPT ![phaseIndex] = r.phase],
     after |-> Append(st.after, r.env.rnd)]

\* the callback of forEach on one entry [phaseId, rerollId]
applyReroll(rerolls, st, phaseId) ==
    IF findIndex(st.phases, phaseId) # 0
    THEN storeReroll(st, findIndex(st.phases, phaseId),
                     rerollSinglePhase(phaseId, otherPhasesOf(st.phases, phaseId),
                                       rerolls[phaseId], st.env))
    ELSE st

\* Object.entries(rerolls).forEach(...)
\* st = [phases, env, after]; after collects Math.random as left by each reroll
RECURSIVE applyRerolls(_, _, _)
applyRerolls(keys, rerolls, st) ==
    IF keys = <<>> THEN st
    ELSE applyRerolls(Tail(keys), rerolls, applyReroll(rerolls, st, Head(keys)))

\* rerolls is a function from positions to tokens; the empty function stands
\* for both `undefined` and `{}`, which leave the phases alone alike
sharedSetOf(id, rerolls, originalRandom, seeded, g, a) ==
    [seededFn |-> seeded.rnd,
     base |-> g.set.phases,
     after |-> a.after,
     set |-> [id |-> id, name |-> <<"Shared Phase Set">>, phases |-> a.phases,
              version |-> ALGORITHM_VERSION, rerolls |-> rerolls],
     env |-> Restore(a.env, originalRandom)]

\* if (rerolls) { Object.entries(rerolls).forEach(...) } on the set g, and
\* the return
afterGenerate(id, rerolls, originalRandom, seeded, g) ==
    sharedSetOf(id, rerolls, originalRandom, seeded, g,
                applyRerolls(sortedKeys(DOMAIN rerolls), rerolls,
                             [phases |-> g.set.phases, env |-> g.env, after |-> <<>>]))

\* const phaseSet = generatePhaseSet() under the seeded Math.random
afterSeed(id, rerolls, originalRandom, seeded) ==
    afterGenerate(id, rerolls, originalRandom, seeded, generatePhaseSet(seeded))

\* the result is the record [set, env] with what was computed on the way
generatePhaseSetFromId(id, rerolls, env) ==
    afterSeed(id, rerolls, env.rnd, Install(env, seedRandom(id)))

\* ------------------------------------------------------------ the program
\* In the actions a result is bound once with \E r \in {...}.
\* mathRandom  Math.random: the installed function and the live closures
\* phaseSet    the phaseSet state of the PhaseGenerator component, <<>> for null
\* call        the last call into the engine: its arguments and what it
\*             returned; prev is the call made before it
\* first       the first generatePhaseSetFromId and the first token reroll of
\*             this behaviour: what they returned and the number of the call
\* calls       the number of calls made
\* input       the page and the callers: the built-in draws, the identifier
\*             and the rerolls of the URL, the position and the token used
\* rerollingPhases  the rerollPhase handlers waiting on their timer: for each
\*             position being rerolled, the phaseSet its handler closed over
VARIABLES mathRandom, phaseSet, call, first, calls, input, rerollingPhases

vars == <<mathRandom, phaseSet, call, first, calls, input, rerollingPhases>>

\* the built-in Math.random of a page whose draws follow the cyclic pattern pat
nativeRandom(pat) == [kind |-> "native", pat |-> pat, idx |-> 1]

\* Math.random as a call leaves it; closures nothing refers to are dropped
Collect(env) == [rnd |-> env.rnd, fns |-> SubSeq(env.fns, 1, env.rnd)]

\* the map comparing the array index with the id: (p, i) => i === phaseId
replacePhaseAtIndex(phases, phaseId, newPhase) ==
    [k \in 1..Len(phases) |-> IF k - 1 = phaseId THEN newPhase ELSE phases[k]]

\* phaseSet.phases.map(p => p.id === phaseId ? newPhase : p)
replacePhase(phases, phaseId, newPhase) ==
    [k \in 1..Len(phases) |-> IF phases[k].id = phaseId THEN newPhase ELSE phases[k]]

\* generateNewPhaseSet of the component: generatePhaseSet() and setPhaseSet
GenerateNewPhaseSet ==
    /\ calls < MaxCalls
    /\ \E r \in {generatePhaseSet(mathRandom)} :
         /\ phaseSet' = r.set
         /\ mathRandom' = Collect(r.env)
         /\ call' = [op |-> "generatePhaseSet", prev |-> call.op,
                     before |-> mathRandom.rnd, set |-> r.set,
                     accepted |-> r.accepted, traces |-> r.traces]
    /\ calls' = calls + 1
    /\ UNCHANGED <<first, input, rerollingPhases>>

\* a caller reconstructs a set: generatePhaseSetFromId(id, rerolls)
GeneratePhaseSetFromId ==
    /\ calls < MaxCalls
    /\ \E r \in {generatePhaseSetFromId(input.id, input.rerolls, mathRandom)} :
         /\ mathRandom' = Collect(r.env)
         /\ call' = [op |-> "generatePhaseSetFromId", prev |-> call.op,
                     before |-> mathRandom.rnd,
                     id |-> input.id, rerolls |-> input.rerolls, set |-> r.set,
                     base |-> r.base, seededFn |-> r.seededFn, after |-> r.after]
         /\ first' = IF first.fromId = <<>>
                     THEN [first EXCEPT !.fromId = <<[phases |-> r.set.phases,
                                                      random |-> mathRandom,
                                                      at |-> calls + 1]>>]
                     ELSE first
    /\ calls' = calls + 1
    /\ UNCHANGED <<phaseSet, input, rerollingPhases>>

\* a caller reconstructs the set on display from its identifier, as the share
\* URL carries it: generatePhaseSetFromId(phaseSet.id)
ViewSharedSet ==
    /\ calls < MaxCalls
    /\ phaseSet # <<>>
    /\ call.op = "generatePhaseSet"
    /\ \E r \in {generatePhaseSetFromId(phaseSet.id, <<>>, mathRandom)} :
         /\ mathRandom' = Collect(r.env)
         /\ call' = [op |-> "viewSharedSet", prev |-> call.op,
                     before |-> mathRandom.rnd,
                     id |-> phaseSet.id, shared |-> phaseSet, set |-> r.set]
    /\ calls' = calls + 1
    /\ UNCHANGED <<phaseSet, first, input, rerollingPhases>>

\* rerollPhase of the component, from the click to setPhaseSet
RerollPhase ==
    /\ calls < MaxCalls
    /\ phaseSet # <<>>
    /\ \E phaseId \in {input.position} :
       \E otherPhases \in {otherPhasesOf(phaseSet.phases, phaseId)} :
       \E r \in {rerollSinglePhase(phaseId, otherPhases, <<>>, mathRandom)} :
       \E updatedPhases \in {replacePhase(phaseSet.phases, phaseId, r.phase)} :
         /\ phaseSet' = [phaseSet EXCEPT !.phases = updatedPhases]
         /\ mathRandom' = Collect(r.env)
         /\ call' = [op |-> "rerollPhase", prev |-> call.op,
                     before |-> mathRandom.rnd, position |-> phaseId,
                     siblings |-> otherPhases, phasesIn |-> phaseSet.phases,
                     phase |-> r.phase, attempts |-> r.attempts, varied |-> r.varied,
                     candidates |-> r.candidates]
    /\ calls' = calls + 1
    /\ UNCHANGED <<first, input, rerollingPhases>>

\* a caller rerolls with a token: rerollSinglePhase(position, siblings, token),
\* the siblings being those of the set on display, or none
RerollSinglePhase ==
    /\ calls < MaxCalls
    /\ input.token # <<>>
    /\ \E otherPhases \in {IF phaseSet = <<>> THEN <<>>
                            ELSE otherPhasesOf(phaseSet.phases, input.position)} :
       \E r \in {rerollSinglePhase(input.position, otherPhases, input.token, mathRandom)} :
         /\ mathRandom' = Collect(r.env)
         /\ call' = [op |-> "rerollSinglePhase", prev |-> call.op,
                     before |-> mathRandom.rnd,
                     position |-> input.position, token |-> input.token,
                     siblings |-> otherPhases, phase |-> r.phase]
         /\ first' = IF first.reroll = <<>>
                     THEN [first EXCEPT !.reroll = <<[siblings |-> otherPhases,
                                                      phase |-> r.phase,
                                                      random |-> mathRandom,
                                                      at |-> calls + 1]>>]
                     ELSE first
    /\ calls' = calls + 1
    /\ UNCHANGED <<phaseSet, input, rerollingPhases>>

\* a caller generates one phase: generateSinglePhase(position)
GenerateSinglePhase ==
    /\ calls < MaxCalls
    /\ \E r \in {generateSinglePhase(input.position, mathRandom)} :
         /\ mathRandom' = Collect(r.env)
         /\ call' = [op |-> "generateSinglePhase", prev |-> call.op,
                     before |-> mathRandom.rnd,
                     position |-> input.position, phase |-> r.phase,
                     components |-> r.components, path |-> r.path,
                     componentCount |-> r.componentCount, attempts |-> r.attempts,
                     shrunk |-> r.shrunk, discarded |-> r.discarded,
                     broke |-> r.broke,
                     adjustmentAttempts |-> r.adjustmentAttempts]
    /\ calls' = calls + 1
    /\ UNCHANGED <<phaseSet, first, input, rerollingPhases>>

\* the phase generateSinglePhase returns once its components are assembled:
\* the sort, the join, the score and the card total
describedPhase(phaseNumber, components, env) ==
    afterRecovery(phaseNumber, [v |-> Len(components), env |-> env],
                  [attempts |-> Len(components), shrunk |-> FALSE, discarded |-> 0,
                   broke |-> TRUE, env |-> env],
                  [components |-> components, totalCards |-> cardsOf(components),
                   path |-> "assembled", adjustmentAttempts |-> 0]).phase

\* the orders in which the components q can have been generated
orderingsOf(q) ==
    { [k \in 1..Len(q) |-> q[f[k]]] :
          f \in {g \in [1..Len(q) -> 1..Len(q)] :
                     \A i, j \in 1..Len(q) : g[i] = g[j] => i = j} }

\* generateSinglePhase from the sort on, for the same components generated in
\* two orders
DescribePhase ==
    /\ calls < MaxCalls
    /\ \E q \in orderingsOf(input.components) :
         call' = [op |-> "describePhase", prev |-> call.op,
                  components |-> input.components, reordered |-> q,
                  phase |-> describedPhase(input.position, input.components, mathRandom),
                  other |-> describedPhase(input.position, q, mathRandom)]
    /\ calls' = calls + 1
    /\ UNCHANGED <<mathRandom, phaseSet, first, input, rerollingPhases>>

\* generatePhaseSet or rerollSinglePhase hands a duplicate to
\* createVariationOfPhase(originalPhase, existingPhases)
CreateVariationOfPhase ==
    /\ calls < MaxCalls
    /\ call' = [op |-> "createVariationOfPhase", prev |-> call.op,
                originalPhase |-> input.originalPhase,
                existingPhases |-> input.existingPhases,
                path |-> variationPath(input.originalPhase, input.originalPhase,
                                       input.existingPhases, 0),
                phase |-> createVariationOfPhase(input.originalPhase,
                                                 input.existingPhases)]
    /\ calls' = calls + 1
    /\ UNCHANGED <<mathRandom, phaseSet, first, input, rerollingPhases>>

\* a caller scores the components of a phase: calculateDifficulty(components,
\* phaseNumber)
CalculateDifficulty ==
    /\ calls < MaxCalls
    /\ call' = [op |-> "calculateDifficulty", prev |-> call.op,
                components |-> input.components, phaseNumber |-> input.phaseNumber,
                difficulty |-> calculateDifficulty(input.components)]
    /\ calls' = calls + 1
    /\ UNCHANGED <<mathRandom, phaseSet, first, input, rerollingPhases>>

\* --------------------------------------------------------- the inputs
\* draws of the built-in source, as numerators over 233280
NativeVals == {0, 70000, 139968, 163296, 200000, 233279}

RECURSIVE SeqsUpTo(_, _)
SeqsUpTo(S, n) ==
    IF n = 0 THEN {<<>>}
    ELSE SeqsUpTo(S, n - 1) \cup {Append(q, x) : q \in SeqsUpTo(S, n - 1), x \in S}

NativePatterns == SeqsUpTo(NativeVals, MaxPatLen) \ {<<>>}

\* seed and token strings, as character codes: "a" is 97, "1" is 49
SeedStrings == SeqsUpTo({97, 49}, MaxSeedLen)

InitWith(inputs) ==
    /\ input \in inputs
    /\ mathRandom = [rnd |-> 1, fns |-> <<nativeRandom(input.pattern)>>]
    /\ phaseSet = <<>>
    /\ call = [op |-> "none"]
    /\ first = [fromId |-> <<>>, reroll |-> <<>>]
    /\ calls = 0
    /\ rerollingPhases = <<>>

\* the component and the callers of the engine: every seed string with one
\* page, and three more pages with one seed
Inputs ==
    { [pattern |-> <<0, 0, 139968>>, id |-> s,
       rerolls |-> (3 :> <<49>>) @@ (5 :> <<>>), position |-> 1, token |-> <<97>>]
      : s \in SeedStrings }
    \cup
    { [pattern |-> <<139968, 139968, 200000>>, id |-> <<97, 49>>,
       rerolls |-> <<>>, position |-> p, token |-> <<49, 97>>]
      : p \in {6, 10} }
    \cup
    { [pattern |-> <<0, 70000>>, id |-> <<49>>,
       rerolls |-> (10 :> <<97, 49>>), position |-> 4, token |-> <<49>>] }

Next ==
    \/ GenerateNewPhaseSet
    \/ GeneratePhaseSetFromId
    \/ RerollPhase
    \/ RerollSinglePhase
    \/ GenerateSinglePhase

Spec == InitWith(Inputs) /\ [][Next]_vars

\* generatePhaseSet as a function of the draws it is given, and the set it
\* returns opened again through its identifier
SetInputs ==
    { [pattern |-> pat, id |-> <<>>, rerolls |-> <<>>, position |-> 1, token |-> <<>>]
      : pat \in NativePatterns \cup {<<139968, 139968, 163296>>, <<139968, 0, 139968>>} }

NextSet ==
    \/ GenerateNewPhaseSet
    \/ ViewSharedSet

SpecSet == InitWith(SetInputs) /\ [][NextSet]_vars

\* calculateDifficulty as a function of its arguments: one component of every
\* type, size and count, scored for the first and for the last position
DifficultyInputs ==
    { [pattern |-> <<0>>, phaseNumber |-> n,
       components |-> << [type |-> PHASE_COMPONENTS[t].type, count |-> c, size |-> z] >>]
      : t \in 1..Len(PHASE_COMPONENTS), c \in 1..2, z \in 2..8, n \in {1, 10} }

SpecDifficulty == InitWith(DifficultyInputs) /\ [][CalculateDifficulty]_vars

\* the components the catalog can render within 9 cards
CatalogComponents ==
    { [type |-> PHASE_COMPONENTS[t].type, size |-> z, count |-> c,
       description |-> description(PHASE_COMPONENTS[t].type, c, z)]
      : t \in 1..Len(PHASE_COMPONENTS), c \in 1..2, z \in 2..8 }

\* the sort and the join of generateSinglePhase on up to three components of
\* the catalog within their size bounds and 9 cards in all
MaxComponents == 3

DescribeInputs ==
    { [pattern |-> <<0>>, position |-> 10, components |-> q]
      : q \in { r \in SeqsUpTo({c \in CatalogComponents :
                                   /\ c.size >= ComponentTypeOf(c.type).minSize
                                   /\ c.size <= ComponentTypeOf(c.type).maxSize
                                   /\ c.count * c.size <= 9}, MaxComponents)
                : r # <<>> /\ cardsOf(r) <= 9 } }

SpecDescribe == InitWith(DescribeInputs) /\ [][DescribePhase]_vars

\* the phases n steps of the variation can lead to from phase
RECURSIVE ladderOf(_, _, _)
ladderOf(phase, originalPhase, n) ==
    IF n = 0 THEN {phase}
    ELSE {phase} \cup ladderOf(variationStep(phase, originalPhase), originalPhase, n - 1)

\* the elements of a set of phases in an array
RECURSIVE arrayOf(_)
arrayFrom(S, x) == <<x>> \o arrayOf(S \ {x})

arrayOf(S) == IF S = {} THEN <<>> ELSE arrayFrom(S, CHOOSE x \in S : TRUE)

\* the phases handed to createVariationOfPhase: runs of 6 printed with a
\* count of 1 to 3 and carrying 5 to 10 cards
VariationOriginals ==
    { [id |-> i, description |-> << <<n, "run of", 6>> >>, difficulty |-> 3,
       cardCount |-> c] : i \in {1, 7}, n \in 1..3, c \in 5..10 }

\* createVariationOfPhase as a function of its arguments: each original
\* against every list made of the original and of phases of its ladder
VariationInputs ==
    UNION { { [pattern |-> <<0>>, originalPhase |-> o,
               existingPhases |-> arrayOf(E \cup {o})] : E \in SUBSET ladderOf(o, o, 5) }
            : o \in VariationOriginals }

SpecVariation == InitWith(VariationInputs) /\ [][CreateVariationOfPhase]_vars

\* the positions whose reroll buttons are pressed
OverlapPositions == {1, 2}

\* the phases the rerolls of the component have put on display since the last
\* set was generated, by position, as the call record carries them
rerolledSoFar(c) ==
    IF c.op \in {"rerollPhaseStart", "rerollPhaseComplete"} THEN c.rerolled ELSE <<>>

\* rerollPhase of the component up to its await: the guard, the position added
\* to rerollingPhases, and the timer started; the handler keeps the phaseSet of
\* the render it was created in
RerollPhaseStart ==
    /\ calls < MaxCalls
    /\ phaseSet # <<>>
    /\ \E phaseId \in OverlapPositions :
         /\ phaseId \notin DOMAIN rerollingPhases
         /\ rerollingPhases' = (phaseId :> phaseSet) @@ rerollingPhases
         /\ call' = [op |-> "rerollPhaseStart", prev |-> call.op,
                     position |-> phaseId, rerolled |-> rerolledSoFar(call),
                     overlapping |-> DOMAIN rerollingPhases # {}]
    /\ UNCHANGED <<mathRandom, phaseSet, first, calls, input>>

\* rerollPhase of the component after its timer: the reroll among the phases of
\* the phaseSet the handler closed over, setPhaseSet with that set updated, and
\* the position removed from rerollingPhases
RerollPhaseComplete ==
    /\ calls < MaxCalls
    /\ \E phaseId \in DOMAIN rerollingPhases :
       \E closed \in {rerollingPhases[phaseId]} :
       \E otherPhases \in {otherPhasesOf(closed.phases, phaseId)} :
       \E r \in {rerollSinglePhase(phaseId, otherPhases, <<>>, mathRandom)} :
       \E updatedPhases \in {replacePhase(closed.phases, phaseId, r.phase)} :
         /\ phaseSet' = [closed EXCEPT !.phases = updatedPhases]
         /\ mathRandom' = Collect(r.env)
         /\ rerollingPhases' = [q \in DOMAIN rerollingPhases \ {phaseId} |->
                                  rerollingPhases[q]]
         /\ call' = [op |-> "rerollPhaseComplete", prev |-> call.op,
                     position |-> phaseId, phase |-> r.phase,
                     rerolled |-> (phaseId :> r.phase) @@ rerolledSoFar(call),
                     displayed |-> phaseSet]
    /\ calls' = calls + 1
    /\ UNCHANGED <<first, input>>

NextOverlap ==
    \/ GenerateNewPhaseSet
    \/ RerollPhaseStart
    \/ RerollPhaseComplete

\* the component with its reroll buttons pressed while other rerolls wait: one
\* page for every single built-in draw
SpecOverlap ==
    InitWith({[pattern |-> <<v>>] : v \in NativeVals}) /\ [][NextOverlap]_vars

\* generateSinglePhase as a function of the position and the draws it is given
SingleInputs ==
    { [pattern |-> pat, position |-> p] : pat \in NativePatterns, p \in 1..10 }

SpecSingle == InitWith(SingleInputs) /\ [][GenerateSinglePhase]_vars

\* ------------------------------------------------------------- properties
\* the sequence s as a set
Range(s) == {s[k] : k \in 1..Len(s)}

\* C1: every set returned by generatePhaseSet() holds exactly 10 phases and
\* their ids, read in array order, are 1, 2, ..., 10.
C1_TenPhasesNumbered ==
    call.op = "generatePhaseSet" =>
        /\ Len(call.set.phases) = 10
        /\ \A k \in 1..10 : call.set.phases[k].id = k

\* a returned set in which the sort moved a phase away from the position it
\* was generated for
C1_Witness ==
    /\ call.op = "generatePhaseSet"
    /\ \E k \in 1..10 : call.set.phases[k].description # call.accepted[k].description

\* the phases the last call returned, and those generateSinglePhase and
\* rerollSinglePhase returned to it on the way
returnedPhases ==
    CASE call.op = "generatePhaseSet" ->
           Range(call.set.phases)
           \cup UNION {Range(call.traces[k].candidates) : k \in 1..Len(call.traces)}
      [] call.op = "generatePhaseSetFromId" ->
           Range(call.set.phases) \cup Range(call.base)
      [] call.op = "rerollPhase" -> {call.phase} \cup Range(call.candidates)
      [] call.op \in {"generateSinglePhase", "rerollSinglePhase"} -> {call.phase}
      [] OTHER -> {}

\* C2: every phase returned by generateSinglePhase, contained in a set
\* returned by generatePhaseSet, or returned by rerollSinglePhase has between
\* 6 and 9 cards and an integer difficulty between 1 and 10.
C2_BudgetAndDifficulty ==
    \A p \in returnedPhases : p.cardCount \in 6..9 /\ p.difficulty \in 1..10

\* a reroll whose 20 candidates all collided and that went through
\* createVariationOfPhase, which changed the card count
C2_Witness ==
    /\ call.op = "rerollPhase"
    /\ call.varied
    /\ call.phase.cardCount # call.candidates[Len(call.candidates)].cardCount

\* C3: in every set returned by generatePhaseSet() no two distinct phases
\* share both description and cardCount.
C3_NoDuplicatesInSet ==
    call.op = "generatePhaseSet" =>
        \A i, j \in 1..Len(call.set.phases) :
            i # j => ~arePhasesIdentical(call.set.phases[i], call.set.phases[j])

\* the place of the j-th accepted phase in the order by difficulty, ties in
\* the order of acceptance
rankOfAccepted(accepted, j) ==
    Cardinality({i \in 1..Len(accepted) : accepted[i].difficulty < accepted[j].difficulty})
    + Cardinality({i \in 1..(j - 1) : accepted[i].difficulty = accepted[j].difficulty})
    + 1

\* C4: in every set returned by generatePhaseSet() the difficulties ascend
\* along the array, and phases of equal difficulty stand in the order in which
\* they were accepted during generation.
C4_SortedStable ==
    call.op = "generatePhaseSet" =>
        /\ \A k \in 1..(Len(call.set.phases) - 1) :
              call.set.phases[k].difficulty <= call.set.phases[k + 1].difficulty
        /\ \A j \in 1..Len(call.accepted) :
              call.set.phases[rankOfAccepted(call.accepted, j)]
                  = [call.accepted[j] EXCEPT !.id = rankOfAccepted(call.accepted, j)]

\* a set in which the sort had to move a phase and in which two phases that
\* are not alike tie on difficulty
C4_Witness ==
    /\ call.op = "generatePhaseSet"
    /\ \E i, j \in 1..Len(call.accepted) :
          i < j /\ call.accepted[i].difficulty > call.accepted[j].difficulty
    /\ \E i, j \in 1..Len(call.accepted) :
          /\ i < j
          /\ call.accepted[i].difficulty = call.accepted[j].difficulty
          /\ call.accepted[i].description # call.accepted[j].description

\* C5: every call generatePhaseSetFromId(s, rerolls) returns the same phases
\* array, whatever seeded, unseeded or reroll calls were made in between.
C5_FromIdDeterministic ==
    (call.op = "generatePhaseSetFromId" /\ first.fromId # <<>>) =>
        call.set.phases = first.fromId[1].phases

\* a second generatePhaseSetFromId with rerolls, made after another call
\* that drew from the built-in source since the first one
C5_Witness ==
    /\ call.op = "generatePhaseSetFromId"
    /\ call.prev # "generatePhaseSetFromId"
    /\ call.rerolls # <<>>
    /\ first.fromId[1].at < calls - 1
    /\ first.fromId[1].random # [mathRandom EXCEPT !.rnd = call.before]

\* C6: when generatePhaseSetFromId or rerollSinglePhase has returned,
\* Math.random is the function that was installed before the call; inside
\* generatePhaseSetFromId every inner reroll leaves the outer seeded source
\* installed.
C6_RandomRestored ==
    call.op \in {"generatePhaseSetFromId", "rerollSinglePhase", "rerollPhase"} =>
        /\ mathRandom.rnd = call.before
        /\ mathRandom.fns[mathRandom.rnd].kind = "native"
        /\ call.op = "generatePhaseSetFromId" =>
              \A k \in 1..Len(call.after) : call.after[k] = call.seededFn

\* a generatePhaseSetFromId that applied a reroll with a token and a reroll
\* with an empty token
C6_Witness ==
    /\ call.op = "generatePhaseSetFromId"
    /\ Len(call.after) = 2
    /\ \E k \in DOMAIN call.rerolls : call.rerolls[k] = <<>>
    /\ \E k \in DOMAIN call.rerolls : call.rerolls[k] # <<>>

\* C7: rerolling position p of a 10-phase set changes position p only: the
\* nine other phases are what they were before, in generatePhaseSetFromId
\* and in the component alike.
C7_RerollIsolation ==
    /\ call.op = "generatePhaseSetFromId" =>
          \A k \in 1..10 :
             IF k \in DOMAIN call.rerolls
             THEN call.set.phases[k].id = k
             ELSE call.set.phases[k] = call.base[k]
    /\ call.op = "rerollPhase" =>
          /\ Len(phaseSet.phases) = 10
          /\ \A k \in 1..10 :
                IF k = call.position
                THEN phaseSet.phases[k] = call.phase
                ELSE phaseSet.phases[k] = call.phasesIn[k]
          /\ call.siblings = otherPhasesOf(phaseSet.phases, call.position)

\* a reroll of the component that went through the variation fallback and
\* put a phase unlike the old one at its position
C7_Witness ==
    /\ call.op = "rerollPhase"
    /\ call.varied
    /\ call.phase.description # call.phasesIn[call.position].description

\* C8: rerollSinglePhase(p, siblings, token) returns a phase with id p and
\* rerollId token, the same phase on every call with the same p, siblings
\* and token.
C8_TokenRerollDeterministic ==
    call.op = "rerollSinglePhase" =>
        /\ call.phase.id = call.position
        /\ call.phase.rerollId = call.token
        /\ (first.reroll # <<>> /\ first.reroll[1].siblings = call.siblings) =>
              call.phase = first.reroll[1].phase

\* a second token reroll with the same siblings, made when the built-in
\* source has moved on since the first one
C8_Witness ==
    /\ call.op = "rerollSinglePhase"
    /\ first.reroll[1].at < calls
    /\ first.reroll[1].siblings = call.siblings
    /\ first.reroll[1].random # mathRandom

\* C9: rerollSinglePhase(p, siblings) without a token returns a phase with
\* id p that is not a duplicate (same description and cardCount) of any
\* sibling.
C9_RerollNotDuplicate ==
    call.op = "rerollPhase" =>
        /\ call.phase.id = call.position
        /\ ~isDuplicatePhase(call.phase, call.siblings)

\* C10: the set reconstructed from the identifier of a freshly generated
\* set, generatePhaseSetFromId(S.id), has the same phases as S.
C10_SharedSetSamePhases ==
    call.op = "viewSharedSet" => call.set.phases = call.shared.phases

\* C11: in every set returned by generatePhaseSet() the ten descriptions are
\* pairwise distinct strings, whatever the card counts.
C11_DistinctDescriptions ==
    call.op = "generatePhaseSet" =>
        \A i, j \in 1..Len(call.set.phases) :
            i # j => call.set.phases[i].description # call.set.phases[j].description

\* the phases of the set on display, none before the first set is generated
phasesOnDisplay(shown) == IF shown = <<>> THEN {} ELSE Range(shown.phases)

\* C12: two phases that generatePhaseSet() produces, in one set or in two
\* sets generated one after the other, with the same description have the
\* same difficulty.
C12_SameDescriptionSameDifficulty ==
    [][call'.op = "generatePhaseSet" =>
           \A p \in phasesOnDisplay(phaseSet'),
              q \in phasesOnDisplay(phaseSet') \cup phasesOnDisplay(phaseSet) :
               p.description = q.description => p.difficulty = q.difficulty]_vars

\* the words of the phrases of a description
wordsOf(d) == {d[k][2] : k \in 1..Len(d)}

\* C13: in every set returned by generatePhaseSet() the phases at final
\* positions 1, 2 and 3 contain no color run and no "even or odd cards of one
\* color" component.
C13_EarlyPhasesSimple ==
    call.op = "generatePhaseSet" =>
        \A k \in 1..3 :
            wordsOf(call.set.phases[k].description)
                \cap {"color run of", "color runs of", "even or odd cards of one color"} = {}

\* the single-component descriptions the expectation on late phases admits:
\* /^(1 run of [89]|[89] (cards of one color|even or odd cards)|[3-9] even
\* or odd cards of one color)$/
LargeSingleForms ==
    {<< <<1, "run of", n>> >> : n \in 8..9}
    \cup {<< <<n, w>> >> : n \in 8..9, w \in {"cards of one color", "even or odd cards"}}
    \cup {<< <<n, "even or odd cards of one color">> >> : n \in 3..9}

\* C14: in every set returned by generatePhaseSet() a phase at final position
\* 7 or later with a single component and at least 8 cards reads "1 run of
\* 8|9", "8|9 cards of one color", "8|9 even or odd cards" or "N even or odd
\* cards of one color" with N in 3..9.
C14_LargeSingleComponents ==
    call.op = "generatePhaseSet" =>
        \A k \in 7..10 :
            (Len(call.set.phases[k].description) = 1 /\ call.set.phases[k].cardCount >= 8)
                => call.set.phases[k].description \in LargeSingleForms

\* C15: in every set returned by generatePhaseSetFromId(id, rerolls), with or
\* without rerolls, no two phases share both description and cardCount.
C15_NoDuplicatesFromId ==
    call.op = "generatePhaseSetFromId" =>
        \A i, j \in 1..Len(call.set.phases) :
            i # j => ~arePhasesIdentical(call.set.phases[i], call.set.phases[j])

\* phases[k].difficulty <= phases[k + 1].difficulty along the array
ascending(phases) ==
    \A k \in 1..(Len(phases) - 1) : phases[k].difficulty <= phases[k + 1].difficulty

\* C16: the difficulties ascend along every set returned by
\* generatePhaseSetFromId(id, rerolls) and along every set in which one
\* position was replaced with the result of rerollSinglePhase.
C16_AscendingAfterRerolls ==
    /\ call.op = "generatePhaseSetFromId" => ascending(call.set.phases)
    /\ call.op = "rerollPhase" => ascending(phaseSet.phases)

\* the thirds of the scale from 1 to 10: up to 4 and from 7
inBottomThird(difficulty) == 3 * (difficulty - 1) <= 10 - 1

inTopThird(difficulty) == 3 * (10 - difficulty) <= 10 - 1

\* C17: calculateDifficulty scores a single set component of size 2 and count
\* 1 at position 1 within the bottom third of the scale from 1 to 10, and a
\* single colorEvenOdd component of size 7 and count 1 at position 10 within
\* the top third.
C17_DifficultyThirds ==
    call.op = "calculateDifficulty" =>
        /\ (call.components = << [type |-> "set", count |-> 1, size |-> 2] >>
                /\ call.phaseNumber = 1)
              => inBottomThird(call.difficulty)
        /\ (call.components = << [type |-> "colorEvenOdd", count |-> 1, size |-> 7] >>
                /\ call.phaseNumber = 10)
              => inTopThird(call.difficulty)

\* the colorEvenOdd component of size 7 scored 7 for position 10
C17_Witness ==
    /\ call.op = "calculateDifficulty"
    /\ call.components = << [type |-> "colorEvenOdd", count |-> 1, size |-> 7] >>
    /\ call.phaseNumber = 10
    /\ call.difficulty = 7

\* C18: createVariationOfPhase(phase, existing), applied to a phase of 6 to 9
\* cards that duplicates one of up to nine existing phases, returns a phase of
\* 6 to 9 cards that is not a duplicate of any existing phase. It is applied
\* where generatePhaseSet found the final phase of a position still a
\* duplicate of the phases pushed before it.
C18_VariationNotDuplicate ==
    call.op = "generatePhaseSet" =>
        \A k \in 1..Len(call.traces) :
            call.traces[k].varied =>
                /\ call.accepted[k].cardCount \in 6..9
                /\ ~isDuplicatePhase(call.accepted[k], call.traces[k].previous)

\* C19: generateSinglePhase, generatePhaseSet, generatePhaseSetFromId and
\* rerollSinglePhase return a result for every position and every sequence of
\* draws, and no loop passes its ceiling: 20 candidate attempts per position,
\* 10 regenerations of a duplicate, 5 variation steps, 20 component attempts,
\* 10 expansion attempts, 20 reroll attempts.
C19_BoundedLoops ==
    /\ call.op = "generatePhaseSet" =>
          /\ Len(call.set.phases) = 10
          /\ \A k \in 1..Len(call.traces) :
                /\ call.traces[k].attempts <= 20
                /\ Len(call.traces[k].candidates) <= 20
                /\ call.traces[k].duplicateAttempts <= 10
                /\ call.traces[k].varied =>
                      variationAttempts(call.traces[k].finalPhase, call.traces[k].finalPhase,
                                        call.traces[k].previous, 0) <= 5
    /\ call.op = "generatePhaseSetFromId" => Len(call.set.phases) = 10
    /\ call.op = "generateSinglePhase" =>
          /\ call.phase.id = call.position
          /\ Len(call.components) >= 1
          /\ call.attempts <= 20
          /\ call.adjustmentAttempts <= 10
    /\ call.op = "rerollSinglePhase" => call.phase.id = call.position
    /\ call.op = "rerollPhase" =>
          /\ call.phase.id = call.position
          /\ call.attempts <= 20
          /\ call.varied =>
                variationAttempts(call.candidates[Len(call.candidates)],
                                  call.candidates[Len(call.candidates)],
                                  call.siblings, 0) <= 5

\* a reroll that used all 20 attempts and then all 5 steps of the variation
C19_Witness ==
    /\ call.op = "rerollPhase"
    /\ call.attempts = 20
    /\ call.varied
    /\ variationAttempts(call.candidates[Len(call.candidates)],
                         call.candidates[Len(call.candidates)], call.siblings, 0) = 5

\* the card totals a phrase of a description stands for: count times size
\* where the phrase prints both, a multiple of the size where it prints the
\* size alone
renderedCards(phrase) ==
    IF Len(phrase) = 3 THEN {phrase[1] * phrase[3]}
    ELSE {n * phrase[1] : n \in 1..9}

\* the card totals of the components a description renders
RECURSIVE renderedTotals(_)
renderedTotals(d) ==
    IF d = <<>> THEN {0}
    ELSE {a + b : a \in renderedCards(Head(d)), b \in renderedTotals(Tail(d))}

\* C20: every phase of a produced set has cardCount equal to the sum of
\* count times size over the components its description renders, phases that
\* went through the expansion or through createVariationOfPhase included.
C20_CardCountMatchesDescription ==
    call.op = "generatePhaseSet" =>
        \A k \in 1..Len(call.set.phases) :
            call.set.phases[k].cardCount \in renderedTotals(call.set.phases[k].description)

\* the type of the component a phrase of a description renders
typeRendered(phrase) ==
    CASE phrase[2] \in {"set of", "sets of"} -> "set"
      [] phrase[2] \in {"run of", "runs of"} -> "run"
      [] phrase[2] = "cards of one color" -> "color"
      [] phrase[2] = "even or odd cards" -> "evenOdd"
      [] phrase[2] \in {"color run of", "color runs of"} -> "colorRun"
      [] OTHER -> "colorEvenOdd"

\* the types the catalog offers at a position: set and run up to 3, color up
\* to 5, evenOdd up to 7, all six from 8
allowedTypes(p) ==
    IF p <= 3 THEN {"set", "run"}
    ELSE IF p <= 5 THEN {"set", "run", "color"}
    ELSE IF p <= 7 THEN {"set", "run", "color", "evenOdd"}
    ELSE {"set", "run", "color", "evenOdd", "colorRun", "colorEvenOdd"}

\* C21: every phase returned by generateSinglePhase(p) holds only components
\* of the types allowed for position p, on the expansion and fallback paths
\* as well; the candidates generatePhaseSet generated for a position are such
\* phases, read through their descriptions.
C21_TypesAllowedForPosition ==
    /\ call.op = "generateSinglePhase" =>
          \A k \in 1..Len(call.components) :
              call.components[k].type \in allowedTypes(call.position)
    /\ call.op = "generatePhaseSet" =>
          \A p \in 1..Len(call.traces) :
              \A c \in Range(call.traces[p].candidates) :
                  \A k \in 1..Len(c.description) :
                      typeRendered(c.description[k]) \in allowedTypes(p)

\* a phase generated for a position up to 7 that left the assembly loop short
\* of 6 cards or empty and went through the recovery
C21_Witness ==
    /\ call.op = "generateSinglePhase"
    /\ call.position <= 7
    /\ call.path # "assembled"

\* a candidate that is used at once: not a duplicate of the phases pushed so
\* far and at most one point easier than the last of them
reasonable(phase, phases) ==
    /\ ~isDuplicatePhase(phase, phases)
    /\ (Len(phases) = 0 \/ phase.difficulty >= phases[Len(phases)].difficulty - 1)

\* C22: for each position of generatePhaseSet the first candidate that is not
\* a duplicate and is at most one point easier than the phase accepted before
\* (any non-duplicate at position 1) is accepted at once; if there is none,
\* the earliest non-duplicate candidate of highest difficulty is accepted; the
\* regenerations and the variation are used only when all 20 candidates were
\* duplicates.
C22_CandidateSelection ==
    call.op = "generatePhaseSet" =>
        \A p \in 1..Len(call.traces) :
            /\ \A j \in 1..Len(call.traces[p].candidates) :
                  reasonable(call.traces[p].candidates[j], call.traces[p].previous)
                      => /\ j = Len(call.traces[p].candidates)
                         /\ call.accepted[p] = call.traces[p].candidates[j]
            /\ ( /\ \A j \in 1..Len(call.traces[p].candidates) :
                       ~reasonable(call.traces[p].candidates[j], call.traces[p].previous)
                 /\ \E j \in 1..Len(call.traces[p].candidates) :
                       ~isDuplicatePhase(call.traces[p].candidates[j], call.traces[p].previous) )
               => \E j \in 1..Len(call.traces[p].candidates) :
                     /\ call.accepted[p] = call.traces[p].candidates[j]
                     /\ ~isDuplicatePhase(call.traces[p].candidates[j], call.traces[p].previous)
                     /\ \A i \in 1..Len(call.traces[p].candidates) :
                           ~isDuplicatePhase(call.traces[p].candidates[i],
                                             call.traces[p].previous)
                               => /\ call.traces[p].candidates[i].difficulty
                                       <= call.traces[p].candidates[j].difficulty
                                  /\ i < j => call.traces[p].candidates[i].difficulty
                                                < call.traces[p].candidates[j].difficulty
            /\ (call.traces[p].duplicateAttempts > 0 \/ call.traces[p].varied)
               => /\ Len(call.traces[p].candidates) = 20
                  /\ \A j \in 1..20 :
                        isDuplicatePhase(call.traces[p].candidates[j], call.traces[p].previous)

\* a position where no candidate was reasonable and the earlier of two
\* non-duplicate candidates of the same, highest difficulty was accepted
C22_Witness ==
    /\ call.op = "generatePhaseSet"
    /\ \E p \in 1..Len(call.traces) :
          /\ Len(call.traces[p].candidates) = 20
          /\ call.traces[p].hadBest
          /\ \E i, j \in 1..20 :
                /\ i < j
                /\ call.accepted[p] = call.traces[p].candidates[i]
                /\ ~isDuplicatePhase(call.traces[p].candidates[j], call.traces[p].previous)
                /\ call.traces[p].candidates[j].difficulty = call.accepted[p].difficulty

\* the phase rerollSinglePhase returns when it varies the candidate c against
\* the siblings
variedFrom(c, position, siblings) ==
    withRerollId(createVariationOfPhase(c, siblings), position, c.rerollId)

\* C23 as stated: when all 20 attempts of rerollSinglePhase(p, siblings)
\* collide, the phase returned is the variation of the 20th candidate and
\* carries the token that generated that candidate.
C23_VariationOfLastCandidate ==
    (call.op = "rerollPhase" /\ call.varied) =>
        call.phase = variedFrom(call.candidates[20], call.position, call.siblings)

\* C23 amended: when all 20 attempts collide, a 21st token is drawn and a
\* 21st phase is generated under it; the phase returned is the variation of
\* that phase and carries the 21st token.
C23_VariationOfFreshCandidate ==
    (call.op = "rerollPhase" /\ call.varied) =>
        /\ call.attempts = 20
        /\ Len(call.candidates) = 21
        /\ \A j \in 1..20 : isDuplicatePhase(call.candidates[j], call.siblings)
        /\ call.phase = variedFrom(call.candidates[21], call.position, call.siblings)

\* all 20 attempts collided and the 21st token is not the 20th
C23_Witness ==
    /\ call.op = "rerollPhase"
    /\ call.varied
    /\ Len(call.candidates) = 21
    /\ call.candidates[21].rerollId # call.candidates[20].rerollId
    /\ call.phase.rerollId = call.candidates[21].rerollId

\* C24: the description generateSinglePhase builds does not depend on the
\* order in which the components were generated: two phases with the same
\* components have the same description and are identical for the duplicate
\* test.
C24_DescriptionOrderIndependent ==
    call.op = "describePhase" =>
        /\ call.phase.description = call.other.description
        /\ arePhasesIdentical(call.phase, call.other)

\* three components generated in two different orders, two of them of the
\* same type
C24_Witness ==
    /\ call.op = "describePhase"
    /\ Len(call.components) = 3
    /\ call.reordered # call.components
    /\ call.components[1].type = call.components[2].type
    /\ call.components[1] # call.components[2]

\* a component of the given type, count and size is within the catalog: the
\* size within the bounds of the type, the count 1 or 2, and 1 for a set of 4
\* or more
withinCatalog(type, count, size) ==
    /\ size >= ComponentTypeOf(type).minSize
    /\ size <= ComponentTypeOf(type).maxSize
    /\ count \in {1, 2}
    /\ (type = "set" /\ size >= 4) => count = 1

C26_TokenReproducesPhase ==
    call.op = "rerollPhase" =>
        \A r \in {rerollSinglePhase(call.position, call.siblings,
                                    call.phase.rerollId, mathRandom).phase} :
            /\ r.description = call.phase.description
            /\ r.difficulty = call.phase.difficulty
            /\ r.cardCount = call.phase.cardCount

\* a pass of the loop of createVariationOfPhase that took one of its first
\* two branches: one card more and the first number raised, or one card less
\* and the first number lowered
firstTwoRungs(before, after) ==
    \/ /\ before.cardCount < 9
       /\ after = [before EXCEPT !.cardCount = before.cardCount + 1,
                                 !.description = incrementFirstNumber(before.description)]
    \/ /\ before.cardCount >= 9
       /\ after = [before EXCEPT !.cardCount = before.cardCount - 1,
                                 !.description = decrementFirstNumber(before.description)]

\* C27: createVariationOfPhase never takes its third branch, the "1 set of
\* (6 + id mod 4)" replacement: every pass adds a card or takes one away, and
\* a phase still colliding at 9 cards goes on between 8 and 9 cards until the
\* 5 passes are used up.
C27_ThirdRungNeverTaken ==
    call.op = "createVariationOfPhase" =>
        /\ call.phase = call.path[Len(call.path)]
        /\ \A k \in 1..(Len(call.path) - 1) :
              /\ firstTwoRungs(call.path[k], call.path[k + 1])
              /\ call.path[k].cardCount = 9 => call.path[k + 1].cardCount = 8
              /\ (k > 1 /\ call.path[k - 1].cardCount = 9)
                    => call.path[k + 1].cardCount = 9
        /\ call.phase.difficulty = call.originalPhase.difficulty

\* all 5 passes were used and the phase returned still collides
C27_Witness ==
    /\ call.op = "createVariationOfPhase"
    /\ Len(call.path) = 6
    /\ isDuplicatePhase(call.phase, call.existingPhases)
    /\ \E k \in 1..5 : call.path[k].cardCount = 9

\* C28: the phases generatePhaseSetFromId produces depend on the seed only
\* through the sum of its character codes: a seed with the same sum, such as
\* an anagram, yields the same phases array, with the same rerolls applied.
C28_SeedSumDeterminesPhases ==
    call.op = "generatePhaseSetFromId" =>
        \A other \in SeedStrings :
            SumSeq(other) = SumSeq(call.id) =>
                generatePhaseSetFromId(other, call.rerolls, mathRandom).set.phases
                    = call.set.phases

\* a set generated from a seed of two different characters, which has an
\* anagram
C28_Witness ==
    /\ call.op = "generatePhaseSetFromId"
    /\ \E other \in SeedStrings :
          /\ other # call.id
          /\ SumSeq(other) = SumSeq(call.id)

\* C29: when the rerolls of two positions overlap (the second is started
\* before the timer of the first has run out), the set on display after both
\* have completed holds both rerolled phases: every phase a reroll has put on
\* display since the set was generated is still in its position once no
\* handler is waiting.
C29_OverlappingRerollsBothKept ==
    (call.op = "rerollPhaseComplete" /\ DOMAIN rerollingPhases = {}) =>
        \A p \in DOMAIN call.rerolled :
            \E k \in 1..Len(phaseSet.phases) :
                /\ phaseSet.phases[k].id = p
                /\ phaseSet.phases[k] = call.rerolled[p]

\* the passes the assembly loop of a generateSinglePhase call made: the
\* increments of attempts and the pass that left through the break
iterationsOf(c) == c.attempts + (IF c.broke THEN 1 ELSE 0)

\* C30: in the assembly loop of generateSinglePhase no component is discarded
\* and the first-component shrink branch is not taken; the loop makes at most
\* componentCount (at most 3) passes and stays below its ceiling of 20.
C30_AssemblyNeverDiscards ==
    call.op = "generateSinglePhase" =>
        /\ ~call.shrunk
        /\ call.discarded = 0
        /\ call.componentCount <= 3
        /\ iterationsOf(call) <= call.componentCount
        /\ call.attempts < 20

\* a call whose loop made a second pass with fewer than 6 cards assembled
C30_Witness ==
    /\ call.op = "generateSinglePhase"
    /\ call.componentCount >= 2
    /\ iterationsOf(call) >= 2
    /\ Len(call.components) >= 2

====
